---- MODULE Spec2Model ----
(***************************************************************************)
(* Session & feedback store of the Doha Magazine assistant                 *)
(* (src/app/services/storage.py): one session document in the document     *)
(* store, and concurrent requests that each run a storage operation as a   *)
(* sequence of read_item / upsert_item / create_item calls; and the chat    *)
(* pipeline (src/app/services/chat.py, retrieval.py, embeddings.py): one    *)
(* generate_chat_response request stepping through its gateway calls.       *)
(***************************************************************************)
EXTENDS Integers, Sequences, FiniteSets, TLC

\* ------------------------------------------------------------------ bounds
\* message ids handed out by save_message (uuid4 calls) in one behaviour
MaxMsgs == 2
\* requests issued against the session in one behaviour
MaxCalls == 3
\* length of the pre-existing message lists of SpecStats
MaxLen == 3
\* assistant messages of the pre-existing documents of SpecLabel
MaxTotal == 10

\* concurrent requests against the one session
Procs == {"r1", "r2"}
Roles == {"user", "assistant"}
Texts == {"q", "a"}
\* rating of a FeedbackRequest
Ratings == {"up", "down"}
\* the feedback field of a stored message: key missing, None, or a value
FeedbackValues == {"absent", "null", "up", "down", "other"}

VARIABLES container, down, store, nextId, calls, pc, loc, overlap, chat

vars == <<container, down, store, nextId, calls, pc, loc, overlap, chat>>

\* ------------------------------------------------------------- documents
NoStats ==
  [present |-> FALSE, positive |-> 0, negative |-> 0, null |-> 0,
   total_assistant_messages |-> 0, positive_ratio |-> <<0, 1>>,
   negative_ratio |-> <<0, 1>>, overall_feedback |-> "none"]

NoDoc == [exists |-> FALSE, messages |-> <<>>, message_count |-> 0, stats |-> NoStats]

NewMessage(id, role, text) ==
  [id |-> id, role |-> role, text |-> text, feedback |-> "absent"]

\* count / total as Python computes it, kept as the exact fraction
Ratio(count, total) == IF total > 0 THEN <<count, total>> ELSE <<0, 1>>

\* a > b for two fractions with positive denominators
RatioGT(a, b) == a[1] * b[2] > b[1] * a[2]

\* the literal 0.3
Threshold == <<3, 10>>

\* the "Calculate overall feedback" block of update_feedback_statistics
OverallFeedbackBroken(positive, negative, total) ==
  IF total > 0
    THEN IF RatioGT(Ratio(positive, total), Ratio(negative, total))
              /\ ~RatioGT(Threshold, Ratio(positive, total))
           THEN "positive"
           ELSE IF RatioGT(Ratio(negative, total), Ratio(positive, total))
                     /\ ~RatioGT(Threshold, Ratio(negative, total))
                  THEN "negative"
                  ELSE "neutral"
    ELSE "no_feedback"

OverallFeedback(positive, negative, total) ==
  IF total > 0
    THEN IF RatioGT(Ratio(positive, total), Ratio(negative, total))
              /\ RatioGT(Ratio(positive, total), Threshold)
           THEN "positive"
           ELSE IF RatioGT(Ratio(negative, total), Ratio(positive, total))
                     /\ RatioGT(Ratio(negative, total), Threshold)
                  THEN "negative"
                  ELSE "neutral"
    ELSE "no_feedback"

\* the "Calculate overall feedback" block of recalculate_all_statistics
RecalcOverallFeedback(positive, negative, total) ==
  IF total > 0
    THEN IF RatioGT(Ratio(positive, total), Ratio(negative, total))
              /\ RatioGT(Ratio(positive, total), Threshold)
           THEN "positive"
           ELSE IF RatioGT(Ratio(negative, total), Ratio(positive, total))
                     /\ RatioGT(Ratio(negative, total), Threshold)
                  THEN "negative"
                  ELSE "neutral"
    ELSE "no_feedback"

\* the statistics dict, without last_updated
Statistics(c, overall) ==
  [present |-> TRUE, positive |-> c.positive, negative |-> c.negative,
   null |-> c.null, total_assistant_messages |-> c.total,
   positive_ratio |-> Ratio(c.positive, c.total),
   negative_ratio |-> Ratio(c.negative, c.total),
   overall_feedback |-> overall]

ZeroCounts == [positive |-> 0, negative |-> 0, null |-> 0, total |-> 0]

\* one pass of the counting loop of update_feedback_statistics
UpdateCountBroken(c, msg) ==
  IF msg.role = "assistant"
    THEN LET t == [c EXCEPT !.total = @ + 1]
         IN  IF msg.feedback = "up" THEN [t EXCEPT !.positive = @ + 1]
             ELSE IF msg.feedback = "down" THEN [t EXCEPT !.negative = @ + 1]
             ELSE [t EXCEPT !.null = @ + 1]
    ELSE c

UpdateCountNoRole(c, msg) ==
  LET t == [c EXCEPT !.total = @ + 1]
      has_feedback_field == msg.feedback # "absent"
  IN  IF msg.feedback = "up" THEN [t EXCEPT !.positive = @ + 1]
      ELSE IF msg.feedback = "down" THEN [t EXCEPT !.negative = @ + 1]
      ELSE IF msg.feedback \in {"null", "absent"} /\ has_feedback_field
        THEN [t EXCEPT !.null = @ + 1]
      ELSE IF ~has_feedback_field THEN t
      ELSE [t EXCEPT !.null = @ + 1]

UpdateCount(c, msg) ==
  IF msg.role = "assistant"
    THEN LET t == [c EXCEPT !.total = @ + 1]
             has_feedback_field == msg.feedback # "absent"
         IN  IF msg.feedback = "up" THEN [t EXCEPT !.positive = @ + 1]
             ELSE IF msg.feedback = "down" THEN [t EXCEPT !.negative = @ + 1]
             ELSE IF msg.feedback \in {"null", "absent"} /\ has_feedback_field
               THEN [t EXCEPT !.null = @ + 1]
             ELSE IF ~has_feedback_field THEN t
             ELSE [t EXCEPT !.null = @ + 1]
    ELSE c

\* one pass of the counting loop of recalculate_all_statistics
RecalcCount(c, msg) ==
  IF msg.role = "assistant"
    THEN LET t == [c EXCEPT !.total = @ + 1]
         IN  IF msg.feedback = "up" THEN [t EXCEPT !.positive = @ + 1]
             ELSE IF msg.feedback = "down" THEN [t EXCEPT !.negative = @ + 1]
             ELSE IF msg.feedback \in {"null", "absent"}
               THEN IF msg.feedback # "absent" THEN [t EXCEPT !.null = @ + 1] ELSE t
             ELSE [t EXCEPT !.null = @ + 1]
    ELSE c

RECURSIVE UpdateCounts(_, _)
UpdateCounts(c, msgs) ==
  IF msgs = <<>> THEN c ELSE UpdateCounts(UpdateCount(c, Head(msgs)), Tail(msgs))

RECURSIVE RecalcCounts(_, _)
RecalcCounts(c, msgs) ==
  IF msgs = <<>> THEN c ELSE RecalcCounts(RecalcCount(c, Head(msgs)), Tail(msgs))

\* the statistics object update_feedback_statistics builds (last_updated left out)
UpdateStats(msgs) ==
  LET c == UpdateCounts(ZeroCounts, msgs)
  IN  Statistics(c, OverallFeedback(c.positive, c.negative, c.total))

\* the statistics object recalculate_all_statistics builds
RecalcStats(msgs) ==
  LET c == RecalcCounts(ZeroCounts, msgs)
  IN  Statistics(c, RecalcOverallFeedback(c.positive, c.negative, c.total))

\* ------------------------------------------------------------ operations
\* index of the first message whose id is message_id, 0 when there is none
RECURSIVE FindFrom(_, _, _)
FindFrom(msgs, message_id, i) ==
  IF i > Len(msgs) THEN 0
  ELSE IF msgs[i].id = message_id THEN i
  ELSE FindFrom(msgs, message_id, i + 1)

FindMessage(msgs, message_id) == FindFrom(msgs, message_id, 1)

\* existing_session["messages"].append(new_message); message_count = len(...)
AppendMessageBroken(doc, msg) ==
  [doc EXCEPT !.messages = <<msg>> \o @, !.message_count = Len(doc.messages) + 1]

AppendMessage(doc, msg) ==
  [doc EXCEPT !.messages = Append(@, msg), !.message_count = Len(doc.messages) + 1]

\* session_data of the create branch of save_message
NewSessionBroken(msg) ==
  [exists |-> TRUE, messages |-> <<msg>>, message_count |-> 0, stats |-> NoStats]

NewSession(msg) ==
  [exists |-> TRUE, messages |-> <<msg>>, message_count |-> 1, stats |-> NoStats]

\* msg["feedback"] = feedback on the message found at index i
SetFeedbackBroken(doc, i, feedback) ==
  [doc EXCEPT !.messages = [j \in 1..Len(doc.messages) |->
                              IF doc.messages[j].role = "assistant"
                                THEN [doc.messages[j] EXCEPT !.feedback = feedback]
                                ELSE doc.messages[j]]]

SetFeedback(doc, i, feedback) == [doc EXCEPT !.messages[i].feedback = feedback]

\* messages[-limit:] of Python: the last limit messages, all of them for limit = 0
LastMessages(msgs, limit) ==
  IF limit = 0 \/ limit >= Len(msgs) THEN msgs
  ELSE SubSeq(msgs, Len(msgs) - limit + 1, Len(msgs))

\* the Message object built from a stored message
MessageObject(msg) ==
  [id |-> msg.id, role |-> msg.role, text |-> msg.text,
   feedback |-> IF msg.role = "assistant" /\ msg.feedback \in {"up", "down"}
                  THEN msg.feedback ELSE "null"]

\* Message(...) raises on a feedback value outside up / down / None
Invalid(msg) == msg.role = "assistant" /\ msg.feedback = "other"

GetSessionMessagesBroken(cont, doc, limit) ==
  IF ~cont \/ ~doc.exists THEN <<>>
  ELSE LET sel == IF limit >= Len(doc.messages) THEN doc.messages
                  ELSE SubSeq(doc.messages, 1, limit)
       IN  [i \in 1..Len(sel) |-> MessageObject(sel[i])]

GetSessionMessages(cont, doc, limit) ==
  IF ~cont \/ ~doc.exists THEN <<>>
  ELSE LET sel == LastMessages(doc.messages, limit)
       IN  IF \E i \in 1..Len(sel) : Invalid(sel[i]) THEN <<>>
           ELSE [i \in 1..Len(sel) |-> MessageObject(sel[i])]

\* ----------------------------------------------------------------- state
\* container: self._messages_container is set; store: the session document;
\* nextId: uuid4 calls made; pc, loc: position and locals of each request;
\* overlap: some request has written back a document it read before another
\* request's write; down: every read_item / upsert_item / create_item call
\* raises; chat: the state of the generate_chat_response request.
IdleLoc ==
  [op |-> "none", role |-> "none", text |-> "none", mid |-> 0, rating |-> "none",
   doc |-> NoDoc, snap |-> NoDoc, umf |-> "none", ret |-> 0, nwrites |-> 0,
   fresh |-> FALSE, clean |-> FALSE]

\* the message of a chat request by what the pipeline reads off it: characters
\* in U+0600..U+06FF, alphabetic characters, length once stripped, and whether
\* it holds a basic-conversation pattern or (once enhanced) a domain term
NoMsg == [arabic |-> 0, alpha |-> 0, stripped |-> 0, basic |-> FALSE, keyword |-> FALSE]

\* an answer by its wording: which text it is, whether it holds one of the
\* unanswered_indicators, whether it is longer than 50 characters
NoAnswer == [kind |-> "none", cant |-> FALSE, long |-> FALSE]

\* format_context_for_llm of no results: "No relevant information found."
NoContext == [found |-> FALSE, parts |-> <<>>]

\* a query by its characters, its split() tokens and whether it holds a
\* reference word; an enhanced query by the text prepended to it (0: none),
\* the characters kept of that text and the characters kept of the query
NoQuery == [len |-> 0, tokens |-> 0, has_reference |-> FALSE]
NoEnhanced == [prefix |-> 0, prefix_kept |-> 0, query_kept |-> 0]

\* generate_chat_response before it is called
IdleChat ==
  [pc |-> "idle", msg |-> NoMsg, emb_attempt |-> 0, embed_calls |-> 0,
   search_calls |-> 0, search_error |-> FALSE, embed_error |-> FALSE,
   index_error |-> FALSE,
   retrieved |-> <<>>, search_results |-> <<>>, is_related |-> FALSE,
   has_results |-> FALSE, avg_score |-> <<0, 1>>, is_basic_greeting |-> FALSE,
   attempt |-> 0, outcomes |-> <<>>, answer |-> NoAnswer, sources |-> <<>>,
   logged |-> <<>>, message_id |-> 0, max_tokens |-> 0, context |-> NoContext,
   is_new_session |-> FALSE, query |-> NoQuery, conversation_history_text |-> <<>>,
   history_dicts |-> <<>>, enhanced_query |-> NoEnhanced, messages_for_llm |-> <<>>]

Init ==
  /\ container \in BOOLEAN
  /\ down = FALSE
  /\ chat = IdleChat
  /\ store = NoDoc
  /\ nextId = 0
  /\ calls = 0
  /\ pc = [p \in Procs |-> "idle"]
  /\ loc = [p \in Procs |-> IdleLoc]
  /\ overlap = FALSE

\* loc after request p wrote the document: the copies the others read are stale,
\* and p's own first write of this call is no longer the last write for the others
AfterWrite(p, newp) ==
  [q \in Procs |->
     IF q = p
       THEN [newp EXCEPT !.nwrites = @ + 1, !.doc = NoDoc, !.fresh = FALSE,
                         !.clean = IF loc[p].nwrites = 0 THEN TRUE ELSE @]
       ELSE [loc[q] EXCEPT !.fresh = FALSE, !.clean = FALSE]]

\* container.upsert_item(body = doc): the whole document replaces the stored one
Upsert(p, doc, newp) ==
  /\ store' = doc
  /\ overlap' = (overlap \/ ~loc[p].fresh)
  /\ loc' = AfterWrite(p, newp)

\* the value the running operation returns once its statistics step is over
Result(p) == IF loc[p].op \in {"save_message", "save_feedback"} THEN loc[p].mid ELSE 0

\* save_message up to the uuid4() call
SaveMessageCall(p, role, text) ==
  /\ pc[p] = "idle"
  /\ calls < MaxCalls
  /\ calls' = calls + 1
  /\ IF ~container
       THEN /\ pc' = [pc EXCEPT ![p] = "done"]
            /\ loc' = [loc EXCEPT ![p] = [IdleLoc EXCEPT !.op = "save_message",
                                            !.role = role, !.text = text]]
            /\ UNCHANGED nextId
       ELSE /\ nextId < MaxMsgs
            /\ nextId' = nextId + 1
            /\ pc' = [pc EXCEPT ![p] = "sm_read"]
            /\ loc' = [loc EXCEPT ![p] = [IdleLoc EXCEPT !.op = "save_message",
                                            !.role = role, !.text = text,
                                            !.mid = nextId + 1]]
  /\ UNCHANGED <<container, down, store, overlap>>

\* read_item of save_message; a missing session, or a store that is down,
\* raises into the create branch
SmRead(p) ==
  /\ pc[p] = "sm_read"
  /\ IF ~down /\ store.exists
       THEN /\ loc' = [loc EXCEPT ![p].doc =
                         AppendMessage(store, NewMessage(loc[p].mid, loc[p].role, loc[p].text)),
                                  ![p].fresh = TRUE]
            /\ pc' = [pc EXCEPT ![p] = "sm_upsert"]
       ELSE /\ pc' = [pc EXCEPT ![p] = "sm_create"]
            /\ UNCHANGED loc
  /\ UNCHANGED <<container, down, calls, store, nextId, overlap>>

\* upsert_item of save_message, then the role test; a failed upsert raises
\* into the create branch
SmUpsert(p) ==
  /\ pc[p] = "sm_upsert"
  /\ IF down
       THEN /\ pc' = [pc EXCEPT ![p] = "sm_create"]
            /\ UNCHANGED <<store, loc, overlap>>
       ELSE IF loc[p].role = "assistant"
       THEN /\ Upsert(p, loc[p].doc, loc[p])
            /\ pc' = [pc EXCEPT ![p] = "ufs_read"]
       ELSE /\ Upsert(p, loc[p].doc, [loc[p] EXCEPT !.ret = loc[p].mid])
            /\ pc' = [pc EXCEPT ![p] = "done"]
  /\ UNCHANGED <<container, down, calls, nextId>>

\* create_item of save_message: it raises when the session exists by now or
\* the store is down, and the outer handler returns ""
SmCreateBroken(p) ==
  /\ pc[p] = "sm_create"
  /\ pc' = [pc EXCEPT ![p] = "done"]
  /\ IF ~down /\ ~store.exists
       THEN /\ store' = NewSession(NewMessage(loc[p].mid, loc[p].role, loc[p].text))
            /\ loc' = AfterWrite(p, [loc[p] EXCEPT !.ret = loc[p].mid])
       ELSE /\ loc' = [loc EXCEPT ![p].ret = loc[p].mid]
            /\ UNCHANGED store
  /\ UNCHANGED <<container, down, calls, nextId, overlap>>

SmCreate(p) ==
  /\ pc[p] = "sm_create"
  /\ pc' = [pc EXCEPT ![p] = "done"]
  /\ IF ~down /\ ~store.exists
       THEN /\ store' = NewSession(NewMessage(loc[p].mid, loc[p].role, loc[p].text))
            /\ loc' = AfterWrite(p, [loc[p] EXCEPT !.ret = loc[p].mid])
       ELSE /\ loc' = [loc EXCEPT ![p].ret = 0]
            /\ UNCHANGED store
  /\ UNCHANGED <<container, down, calls, nextId, overlap>>

\* update_feedback_statistics called on its own (statistics routes)
UpdateFeedbackStatisticsCall(p) ==
  /\ pc[p] = "idle"
  /\ calls < MaxCalls
  /\ calls' = calls + 1
  /\ pc' = [pc EXCEPT ![p] = IF container THEN "ufs_read" ELSE "done"]
  /\ loc' = [loc EXCEPT ![p] = [IdleLoc EXCEPT !.op = "update_feedback_statistics"]]
  /\ UNCHANGED <<container, down, store, nextId, overlap>>

\* read_item of update_feedback_statistics; a missing session ends it with {}
UfsRead(p) ==
  /\ pc[p] = "ufs_read"
  /\ IF ~down /\ store.exists
       THEN /\ loc' = [loc EXCEPT ![p].doc = store, ![p].fresh = TRUE]
            /\ pc' = [pc EXCEPT ![p] = "ufs_upsert"]
       ELSE /\ loc' = [loc EXCEPT ![p].ret = Result(p)]
            /\ pc' = [pc EXCEPT ![p] = "done"]
  /\ UNCHANGED <<container, down, calls, store, nextId, overlap>>

\* the counting loop, the statistics object and upsert_item
UfsUpsert(p) ==
  /\ pc[p] = "ufs_upsert"
  /\ IF down
       THEN /\ loc' = [loc EXCEPT ![p].ret = Result(p)]
            /\ UNCHANGED <<store, overlap>>
       ELSE Upsert(p, [loc[p].doc EXCEPT !.stats = UpdateStats(loc[p].doc.messages)],
                   [loc[p] EXCEPT !.ret = Result(p)])
  /\ pc' = [pc EXCEPT ![p] = "done"]
  /\ UNCHANGED <<container, down, calls, nextId>>

\* recalculate_all_statistics
RecalculateAllStatisticsCall(p) ==
  /\ pc[p] = "idle"
  /\ calls < MaxCalls
  /\ calls' = calls + 1
  /\ pc' = [pc EXCEPT ![p] = IF container THEN "rec_read" ELSE "done"]
  /\ loc' = [loc EXCEPT ![p] = [IdleLoc EXCEPT !.op = "recalculate_all_statistics"]]
  /\ UNCHANGED <<container, down, store, nextId, overlap>>

RecRead(p) ==
  /\ pc[p] = "rec_read"
  /\ IF ~down /\ store.exists
       THEN /\ loc' = [loc EXCEPT ![p].doc = store, ![p].fresh = TRUE]
            /\ pc' = [pc EXCEPT ![p] = "rec_upsert"]
       ELSE /\ pc' = [pc EXCEPT ![p] = "done"]
            /\ UNCHANGED loc
  /\ UNCHANGED <<container, down, calls, store, nextId, overlap>>

RecUpsert(p) ==
  /\ pc[p] = "rec_upsert"
  /\ IF down
       THEN UNCHANGED <<store, loc, overlap>>
       ELSE Upsert(p, [loc[p].doc EXCEPT !.stats = RecalcStats(loc[p].doc.messages)], loc[p])
  /\ pc' = [pc EXCEPT ![p] = "done"]
  /\ UNCHANGED <<container, down, calls, nextId>>

\* save_feedback entering update_message_feedback
SaveFeedbackCall(p, message_id, rating) ==
  /\ pc[p] = "idle"
  /\ calls < MaxCalls
  /\ calls' = calls + 1
  /\ pc' = [pc EXCEPT ![p] = IF container THEN "umf_read" ELSE "done"]
  /\ loc' = [loc EXCEPT ![p] = [IdleLoc EXCEPT !.op = "save_feedback",
                                  !.mid = message_id, !.rating = rating,
                                  !.umf = IF container THEN "none" ELSE "false"]]
  /\ UNCHANGED <<container, down, store, nextId, overlap>>

\* the role test on the message found by update_message_feedback
TargetIsAssistantBroken(doc, i) == TRUE

TargetIsAssistant(doc, i) == doc.messages[i].role = "assistant"

\* read_item of update_message_feedback and the search loop; snap keeps the
\* document as it was read
UmfRead(p) ==
  /\ pc[p] = "umf_read"
  /\ LET i == FindMessage(store.messages, loc[p].mid)
     IN  IF ~down /\ store.exists /\ i # 0 /\ TargetIsAssistant(store, i)
           THEN /\ loc' = [loc EXCEPT ![p].doc = SetFeedback(store, i, loc[p].rating),
                                      ![p].snap = store, ![p].fresh = TRUE]
                /\ pc' = [pc EXCEPT ![p] = "umf_upsert"]
           ELSE /\ loc' = [loc EXCEPT ![p].umf = "false", ![p].snap = store,
                                      ![p].ret = 0]
                /\ pc' = [pc EXCEPT ![p] = "done"]
  /\ UNCHANGED <<container, down, calls, store, nextId, overlap>>

\* upsert_item of update_message_feedback, the read back, return True
UmfUpsert(p) ==
  /\ pc[p] = "umf_upsert"
  /\ IF down
       THEN /\ loc' = [loc EXCEPT ![p].umf = "false", ![p].ret = 0]
            /\ pc' = [pc EXCEPT ![p] = "done"]
            /\ UNCHANGED <<store, overlap>>
       ELSE /\ Upsert(p, loc[p].doc, [loc[p] EXCEPT !.umf = "true"])
            /\ pc' = [pc EXCEPT ![p] = "ufs_read"]
  /\ UNCHANGED <<container, down, calls, nextId>>

\* the request is over
Return(p) ==
  /\ pc[p] = "done"
  /\ pc' = [pc EXCEPT ![p] = "idle"]
  /\ loc' = [loc EXCEPT ![p] = IdleLoc]
  /\ UNCHANGED <<container, down, calls, store, nextId, overlap>>

Next ==
  \E p \in Procs :
    \/ \E role \in Roles, text \in Texts : SaveMessageCall(p, role, text) /\ UNCHANGED chat
    \/ SmRead(p) /\ UNCHANGED chat
    \/ SmUpsert(p) /\ UNCHANGED chat
    \/ SmCreate(p) /\ UNCHANGED chat
    \/ UpdateFeedbackStatisticsCall(p) /\ UNCHANGED chat
    \/ UfsRead(p) /\ UNCHANGED chat
    \/ UfsUpsert(p) /\ UNCHANGED chat
    \/ RecalculateAllStatisticsCall(p) /\ UNCHANGED chat
    \/ RecRead(p) /\ UNCHANGED chat
    \/ RecUpsert(p) /\ UNCHANGED chat
    \/ \E message_id \in 1..MaxMsgs, rating \in Ratings : SaveFeedbackCall(p, message_id, rating) /\ UNCHANGED chat
    \/ UmfRead(p) /\ UNCHANGED chat
    \/ UmfUpsert(p) /\ UNCHANGED chat
    \/ Return(p) /\ UNCHANGED chat

Spec == Init /\ [][Next]_vars

\* ------------------------------------------- statistics over any document
\* A session document that is already in the store, with messages of any
\* shape: one more message is found in it while no request is running.
InjectMessage(role, feedback) ==
  /\ \A p \in Procs : pc[p] = "idle"
  /\ Len(store.messages) < MaxLen
  /\ store' = [exists |-> TRUE,
               messages |-> Append(store.messages,
                                   [id |-> Len(store.messages) + 1, role |-> role,
                                    text |-> "q", feedback |-> feedback]),
               message_count |-> Len(store.messages) + 1,
               stats |-> store.stats]
  /\ UNCHANGED <<container, down, nextId, calls, pc, loc, overlap, chat>>

StatsRequest(p) ==
  \/ UpdateFeedbackStatisticsCall(p) /\ UNCHANGED chat
  \/ UfsRead(p) /\ UNCHANGED chat
  \/ UfsUpsert(p) /\ UNCHANGED chat
  \/ RecalculateAllStatisticsCall(p) /\ UNCHANGED chat
  \/ RecRead(p) /\ UNCHANGED chat
  \/ RecUpsert(p) /\ UNCHANGED chat
  \/ Return(p) /\ UNCHANGED chat

NextStats ==
  \/ \E role \in Roles, feedback \in FeedbackValues : InjectMessage(role, feedback)
  \/ StatsRequest("r1")

SpecStats == Init /\ [][NextStats]_vars

\* Documents whose assistant messages are rated up, then down, then unrated,
\* after an optional leading user message: every (positive, negative, total)
\* up to MaxTotal occurs.
NumAssistant(msgs) == Cardinality({i \in 1..Len(msgs) : msgs[i].role = "assistant"})

InjectRated(role, feedback) ==
  /\ \A p \in Procs : pc[p] = "idle"
  /\ NumAssistant(store.messages) < MaxTotal
  /\ role = "user" => store.messages = <<>> /\ feedback = "absent"
  /\ role = "assistant" /\ feedback = "up" =>
       \A i \in 1..Len(store.messages) :
         store.messages[i].role = "assistant" => store.messages[i].feedback = "up"
  /\ role = "assistant" /\ feedback = "down" =>
       \A i \in 1..Len(store.messages) :
         store.messages[i].role = "assistant" => store.messages[i].feedback \in {"up", "down"}
  /\ store' = [exists |-> TRUE,
               messages |-> Append(store.messages,
                                   [id |-> Len(store.messages) + 1, role |-> role,
                                    text |-> "q", feedback |-> feedback]),
               message_count |-> Len(store.messages) + 1,
               stats |-> store.stats]
  /\ UNCHANGED <<container, down, nextId, calls, pc, loc, overlap, chat>>

NextLabel ==
  \/ \E role \in Roles, feedback \in {"up", "down", "absent"} : InjectRated(role, feedback)
  \/ StatsRequest("r1")

SpecLabel == Init /\ [][NextLabel]_vars

\* ------------------------------------------------------------ chat pipeline
\* generate_chat_response (src/app/services/chat.py) as one request that runs
\* its gateway calls (embedding, search index, generation) and its storage
\* calls one step at a time.

\* candidates the search index returns to the requests of SpecChat
MaxResults == 2
\* len(message.strip()) > 3
MinQuestionLen == 3
\* max_retries of the generation loop
max_retries == 3
\* max_retries of generate_embeddings
embedding_max_retries == 3
\* search_results[:4]
MaxSources == 4

\* stripped lengths on both sides of the length test, and the empty message
StrippedLens == {0, MinQuestionLen, MinQuestionLen + 1}

\* (characters in U+0600..U+06FF, alphabetic characters): no letters at all,
\* ratios 0, 1/2, 1 and 2 (Arabic digits and marks are no letters)
CharCounts == {<<0, 0>>, <<1, 0>>, <<0, 1>>, <<1, 2>>, <<1, 1>>, <<2, 1>>}

Messages ==
  {m \in [arabic : {c[1] : c \in CharCounts}, alpha : {c[2] : c \in CharCounts},
          stripped : StrippedLens, basic : BOOLEAN, keyword : BOOLEAN] :
     /\ <<m.arabic, m.alpha>> \in CharCounts
     /\ m.arabic <= m.stripped
     /\ m.alpha <= m.stripped
     /\ m.basic => m.arabic > 0 /\ m.alpha > 0
     /\ m.keyword => m.alpha > 0}

\* a candidate is a search result by its url, its @search.score in tenths and
\* the number of words of its content
Scores == {2, 4}
Urls == {"", "u1", "u2"}

SeqsUpTo(S, n) == UNION {[1..k -> S] : k \in 0..n}

\* what the search index can return in SpecChat
ChatResults == SeqsUpTo([url : {"", "u1"}, score : Scores, words : {1}], MaxResults)

\* the fixed texts of generate_chat_response
RedirectAnswer == [kind |-> "redirect", cant |-> FALSE, long |-> TRUE]
DeclineAnswer == [kind |-> "decline", cant |-> TRUE, long |-> TRUE]
RateLimitAnswer == [kind |-> "rate_limit", cant |-> FALSE, long |-> TRUE]
ErrorAnswerBroken == [kind |-> "error", cant |-> TRUE, long |-> FALSE]
ErrorAnswer == [kind |-> "error", cant |-> FALSE, long |-> TRUE]

\* the answers the generation service can produce, citations stripped
GeneratedAnswers == [kind : {"generated"}, cant : BOOLEAN, long : BOOLEAN]

\* what one call of a gateway can do
CallOutcomes == {"ok", "rate_limit", "error"}

\* is_arabic_text: arabic_chars / total_chars > 0.5, False without letters
IsArabicTextBroken(m) ==
  IF m.alpha = 0 THEN FALSE ELSE ~RatioGT(<<1, 2>>, <<m.arabic, m.alpha>>)

IsArabicText(m) ==
  IF m.stripped = 0 \/ m.alpha = 0 THEN FALSE
  ELSE RatioGT(<<m.arabic, m.alpha>>, <<1, 2>>)

\* is_basic_conversation: some basic pattern occurs in the message
IsBasicConversation(m) == m.basic

\* is_doha_magazine_related: retrieved sources settle it, else the term lists
IsDohaMagazineRelatedBroken(m, retrieved_sources) == m.keyword

IsDohaMagazineRelated(m, retrieved_sources) ==
  IF Len(retrieved_sources) > 0 THEN TRUE ELSE m.keyword

RECURSIVE SumScores(_)
SumScores(results) ==
  IF results = <<>> THEN 0 ELSE Head(results).score + SumScores(Tail(results))

\* sum(score) / len(search_results) if search_results else 0
AvgScore(results) ==
  IF Len(results) > 0 THEN <<SumScores(results), 10 * Len(results)>> ELSE <<0, 1>>

\* the literal 0.3 of the reason test
LowScore == <<3, 10>>

\* the source loop: the first four candidates, a url kept when it is not
\* empty and not seen before
RECURSIVE SourcesFromBroken(_, _, _)
SourcesFromBroken(results, i, acc) ==
  IF i > Len(results) \/ i >= MaxSources THEN acc
  ELSE LET url == results[i].url
       IN  SourcesFromBroken(results, i + 1,
             IF url # "" /\ \A j \in 1..Len(acc) : acc[j] # url
               THEN Append(acc, url) ELSE acc)

RECURSIVE SourcesFrom(_, _, _)
SourcesFrom(results, i, acc) ==
  IF i > Len(results) \/ i > MaxSources THEN acc
  ELSE LET url == results[i].url
       IN  SourcesFrom(results, i + 1,
             IF url # "" /\ \A j \in 1..Len(acc) : acc[j] # url
               THEN Append(acc, url) ELSE acc)

\* sources of step 7, by url
ExtractSourcesBroken(results) == [i \in 1..Len(results) |-> results[i].url]

ExtractSources(results) == SourcesFrom(results, 1, <<>>)

\* question_is_valid
QuestionIsValid(m) == m.stripped > MinQuestionLen

\* bot_provided_answer
BotProvidedAnswerBroken(answer, sources) == Len(sources) > 0 \/ answer.long

BotProvidedAnswer(answer, sources) ==
  Len(sources) > 0 \/ (answer.long /\ ~answer.cant)

\* should_log
ShouldLogBroken(c, answer, sources) ==
  /\ QuestionIsValid(c.msg)
  /\ answer.cant
  /\ ~BotProvidedAnswer(answer, sources)

ShouldLog(c, answer, sources) ==
  /\ c.is_related
  /\ ~c.is_basic_greeting
  /\ QuestionIsValid(c.msg)
  /\ answer.cant
  /\ ~BotProvidedAnswer(answer, sources)

\* the reason handed to log_unanswered_question
Reason(c) ==
  IF c.search_error THEN "search_error"
  ELSE IF ~c.has_results THEN "no_results"
  ELSE IF RatioGT(LowScore, c.avg_score) THEN "low_score"
  ELSE "insufficient_information"

\* settings.MAX_TOKENS_CONTEXT
MAX_TOKENS_CONTEXT == 1200

\* the loop of format_context_for_llm: a part [i] for each candidate until the
\* first one that would take the word count over max_tokens
RECURSIVE ContextFromBroken(_, _, _, _, _)
ContextFromBroken(results, i, token_count, parts, max_tokens) ==
  IF i > Len(results) THEN parts
  ELSE IF token_count + results[i].words > max_tokens
    THEN ContextFromBroken(results, i + 1, token_count, parts, max_tokens)
  ELSE ContextFromBroken(results, i + 1, token_count + results[i].words,
                         Append(parts, [tag |-> i, words |-> results[i].words]),
                         max_tokens)

RECURSIVE ContextFrom(_, _, _, _, _)
ContextFrom(results, i, token_count, parts, max_tokens) ==
  IF i > Len(results) THEN parts
  ELSE IF token_count + results[i].words > max_tokens THEN parts
  ELSE ContextFrom(results, i + 1, token_count + results[i].words,
                   Append(parts, [tag |-> i, words |-> results[i].words]),
                   max_tokens)

\* format_context_for_llm
FormatContextForLlm(results, max_tokens) ==
  IF results = <<>> THEN NoContext
  ELSE [found |-> TRUE, parts |-> ContextFrom(results, 1, 0, <<>>, max_tokens)]

storageVars == <<container, down, store, nextId, calls, pc, loc, overlap>>

\* session id, history of a session that has no document yet, query
\* enhancement and normalisation
ChatCall(m) ==
  /\ chat.pc = "idle"
  /\ chat' = [chat EXCEPT !.pc = "embed", !.msg = m]
  /\ UNCHANGED storageVars

\* except Exception around hybrid_search: search_error is set, results stay []
OnSearchExceptionBroken(c) == [c EXCEPT !.pc = "raised"]

OnSearchException(c) == [c EXCEPT !.search_error = TRUE, !.pc = "classify"]

\* one attempt of generate_embeddings: a rate-limit failure is retried twice,
\* any other failure and the third rate-limit failure raise out of hybrid_search
AfterEmbedding(c, outcome) ==
  LET c1 == [c EXCEPT !.embed_calls = @ + 1, !.emb_attempt = @ + 1]
  IN  IF outcome = "ok" THEN [c1 EXCEPT !.pc = "search"]
      ELSE IF outcome = "rate_limit" /\ c.emb_attempt < embedding_max_retries - 1
        THEN c1
      ELSE OnSearchException([c1 EXCEPT !.embed_error = TRUE])

ChatEmbed(outcome) ==
  /\ chat.pc = "embed"
  /\ chat' = AfterEmbedding(chat, outcome)
  /\ UNCHANGED storageVars

\* client.search inside hybrid_search: its failure is caught there and [] returned
AfterSearch(c, outcome, results) ==
  LET c1 == [c EXCEPT !.search_calls = @ + 1, !.pc = "classify"]
  IN  IF outcome = "ok"
        THEN [c1 EXCEPT !.retrieved = results, !.search_results = results]
        ELSE [c1 EXCEPT !.index_error = TRUE]

ChatSearch(outcome, results) ==
  /\ chat.pc = "search"
  /\ outcome # "ok" => results = <<>>
  /\ chat' = AfterSearch(chat, outcome, results)
  /\ UNCHANGED storageVars

\* relevance, has_results and avg_score, then the language test, the greeting
\* test and the decline test; each way out starts a save_message
ChatClassify ==
  /\ chat.pc = "classify"
  /\ LET c1 == [chat EXCEPT
                  !.is_related = IsDohaMagazineRelated(chat.msg, chat.search_results),
                  !.has_results = Len(chat.search_results) > 0,
                  !.avg_score = AvgScore(chat.search_results)]
     IN  IF ~IsArabicText(chat.msg)
           THEN /\ chat' = [c1 EXCEPT !.answer = RedirectAnswer, !.sources = <<>>,
                                      !.pc = "wait_final"]
                /\ SaveMessageCall("r1", "assistant", "a")
         ELSE IF IsBasicConversation(chat.msg)
           THEN /\ chat' = [c1 EXCEPT !.is_basic_greeting = TRUE,
                                      !.search_results = <<>>, !.has_results = FALSE,
                                      !.avg_score = <<0, 1>>, !.is_related = TRUE,
                                      !.pc = "wait_user"]
                /\ SaveMessageCall("r1", "user", "q")
         ELSE IF ~c1.is_related /\ c1.has_results
           THEN /\ chat' = [c1 EXCEPT !.answer = DeclineAnswer, !.sources = <<>>,
                                      !.pc = "wait_final"]
                /\ SaveMessageCall("r1", "assistant", "a")
         ELSE /\ chat' = [c1 EXCEPT !.pc = "wait_user"]
              /\ SaveMessageCall("r1", "user", "q")

\* the user message is saved; the context and the prompt are built
ChatUserSaved ==
  /\ chat.pc = "wait_user"
  /\ Return("r1")
  /\ chat' = [chat EXCEPT !.pc = "generate", !.max_tokens = MAX_TOKENS_CONTEXT,
                          !.context = FormatContextForLlm(chat.search_results,
                                                          MAX_TOKENS_CONTEXT)]

\* one pass of the generation loop
AfterAttemptBroken(c, outcome, ans) ==
  LET c1 == [c EXCEPT !.attempt = @ + 1, !.outcomes = Append(@, outcome)]
  IN  IF outcome = "ok" THEN [c1 EXCEPT !.answer = ans, !.pc = "log"]
      ELSE IF c.attempt < max_retries - 1 THEN c1
      ELSE [c1 EXCEPT !.answer = RateLimitAnswer, !.pc = "log"]

AfterAttempt(c, outcome, ans) ==
  LET c1 == [c EXCEPT !.attempt = @ + 1, !.outcomes = Append(@, outcome)]
  IN  IF outcome = "ok" THEN [c1 EXCEPT !.answer = ans, !.pc = "log"]
      ELSE IF outcome = "rate_limit"
        THEN IF c.attempt < max_retries - 1 THEN c1
             ELSE [c1 EXCEPT !.answer = RateLimitAnswer, !.pc = "log"]
      ELSE [c1 EXCEPT !.answer = ErrorAnswer, !.pc = "log"]

ChatGenerate(outcome, ans) ==
  /\ chat.pc = "generate"
  /\ chat.attempt < max_retries
  /\ outcome = "ok" <=> ans # NoAnswer
  /\ chat' = AfterAttempt(chat, outcome, ans)
  /\ UNCHANGED storageVars

\* sources, the unanswered-question log, and the save of the assistant message
ChatLog ==
  /\ chat.pc = "log"
  /\ LET sources == ExtractSources(chat.search_results)
     IN  chat' = [chat EXCEPT !.sources = sources,
                    !.logged = IF ShouldLog(chat, chat.answer, sources)
                                 THEN Append(@, Reason(chat)) ELSE @,
                    !.pc = "wait_final"]
  /\ SaveMessageCall("r1", "assistant", "a")

\* save_message has returned the id of the assistant message, or ""
ChatReturn ==
  /\ chat.pc = "wait_final"
  /\ Return("r1")
  /\ chat' = [chat EXCEPT !.message_id = loc["r1"].ret, !.pc = "done"]

\* the storage calls the request is waiting for
ChatStorage ==
  \/ SmRead("r1") /\ UNCHANGED chat
  \/ SmUpsert("r1") /\ UNCHANGED chat
  \/ SmCreate("r1") /\ UNCHANGED chat
  \/ UfsRead("r1") /\ UNCHANGED chat
  \/ UfsUpsert("r1") /\ UNCHANGED chat

ChatStep(msgs, found) ==
  \/ chat.pc = "idle" /\ \E m \in msgs : ChatCall(m)
  \/ \E outcome \in CallOutcomes : ChatEmbed(outcome)
  \/ chat.pc = "search" /\ \E outcome \in {"ok", "error"}, results \in found \cup {<<>>} :
                             ChatSearch(outcome, results)
  \/ ChatClassify
  \/ ChatUserSaved
  \/ \E outcome \in CallOutcomes, ans \in GeneratedAnswers \cup {NoAnswer} :
       ChatGenerate(outcome, ans)
  \/ ChatLog
  \/ ChatReturn
  \/ ChatStorage

\* a request against a store that is up, down, or has no container
InitChat ==
  /\ container \in BOOLEAN
  /\ down \in BOOLEAN
  /\ down => container
  /\ chat = IdleChat
  /\ store = NoDoc
  /\ nextId = 0
  /\ calls = 0
  /\ pc = [p \in Procs |-> "idle"]
  /\ loc = [p \in Procs |-> IdleLoc]
  /\ overlap = FALSE

NextChat == ChatStep(Messages, ChatResults)

SpecChat == InitChat /\ [][NextChat]_vars

\* ---------------------------------------------------------------- claims
Quiescent == \A p \in Procs : pc[p] = "idle"

SaveMessageReturned(p) ==
  pc[p] = "done" /\ loc[p].op = "save_message" /\ loc[p].ret # 0

\* the message update_message_feedback was aimed at, in the document it read
Target(p) == FindMessage(loc[p].snap.messages, loc[p].mid)

CountWhere(msgs, role, feedbacks) ==
  Cardinality({i \in 1..Len(msgs) : msgs[i].role = role /\ msgs[i].feedback \in feedbacks})

\* ids, roles and texts of a message list, feedback left out
Saved(msgs) == [i \in 1..Len(msgs) |-> <<msgs[i].id, msgs[i].role, msgs[i].text>>]

IsPrefix(a, b) == Len(a) <= Len(b) /\ SubSeq(b, 1, Len(a)) = a

\* a statistics request of SpecStats / SpecLabel has just written its result
StatsWritten(p, op) == pc[p] = "done" /\ loc[p].op = op /\ loc[p].nwrites = 1

\* C1: whenever no storage operation is in progress, the stored
\* feedback_statistics equal the statistics recomputed from the stored messages
\* (a document without statistics and without assistant messages is let pass).
C1_StatsMatchMessages ==
  (Quiescent /\ store.exists
     /\ (store.stats.present \/ NumAssistant(store.messages) > 0))
    => store.stats = UpdateStats(store.messages)

\* C2: once save_message of an assistant message has returned a message id, and
\* no other request has written since its first write, the stored document
\* carries statistics computed over a list that contains the new message.
C2_AssistantSaveHasStats ==
  \A p \in Procs :
    (SaveMessageReturned(p) /\ loc[p].role = "assistant" /\ loc[p].clean)
      => /\ store.stats.present
         /\ FindMessage(store.messages, loc[p].ret) # 0
         /\ store.stats = UpdateStats(store.messages)

\* C3: the statistics written by update_feedback_statistics are the ones
\* recalculate_all_statistics computes for the same message list, and the other
\* way round, for every role and every state of the feedback field.
C3_UpdateEqualsRecalculate ==
  \A p \in Procs :
    /\ StatsWritten(p, "update_feedback_statistics")
         => store.stats = RecalcStats(store.messages)
    /\ StatsWritten(p, "recalculate_all_statistics")
         => store.stats = UpdateStats(store.messages)

C3_Witness ==
  \E p \in Procs :
    /\ StatsWritten(p, "update_feedback_statistics")
    /\ Len(store.messages) = MaxLen
    /\ CountWhere(store.messages, "assistant", {"absent"}) > 0
    /\ CountWhere(store.messages, "assistant", {"other"}) > 0
    /\ CountWhere(store.messages, "user", {"up"}) > 0

\* C4: update_message_feedback aimed at a user message returns false and the
\* call writes nothing.
C4_UserTargetFails ==
  \A p \in Procs :
    (loc[p].op = "save_feedback" /\ loc[p].snap.exists /\ Target(p) # 0
       /\ loc[p].snap.messages[Target(p)].role = "user")
      => /\ pc[p] = "done"
         /\ loc[p].umf = "false"
         /\ loc[p].ret = 0
         /\ loc[p].nwrites = 0

C4_Witness ==
  \E p \in Procs :
    /\ loc[p].op = "save_feedback" /\ loc[p].snap.exists /\ Target(p) # 0
    /\ loc[p].snap.messages[Target(p)].role = "user"
    /\ pc[p] = "done" /\ loc[p].umf = "false"
    /\ store = loc[p].snap

\* C5: update_message_feedback returns false without writing when the session
\* is missing or holds no message with that id; it returns true only for an
\* assistant message, and the document it persisted is the one it read with
\* that message's feedback set to the rating and nothing else changed.
C5_FeedbackFrame ==
  \A p \in Procs :
    loc[p].op = "save_feedback" =>
      /\ loc[p].umf = "false" => loc[p].nwrites = 0 /\ loc[p].ret = 0
      /\ (pc[p] # "umf_read" /\ (~loc[p].snap.exists \/ Target(p) = 0))
           => loc[p].umf = "false"
      /\ loc[p].umf = "true" =>
           /\ loc[p].snap.exists
           /\ Target(p) # 0
           /\ loc[p].snap.messages[Target(p)].role = "assistant"
      /\ (loc[p].umf = "true" /\ loc[p].clean) =>
           /\ Len(store.messages) = Len(loc[p].snap.messages)
           /\ store.message_count = loc[p].snap.message_count
           /\ \A j \in 1..Len(store.messages) :
                /\ Saved(store.messages)[j] = Saved(loc[p].snap.messages)[j]
                /\ store.messages[j].feedback =
                     IF j = Target(p) THEN loc[p].rating
                     ELSE loc[p].snap.messages[j].feedback

C5_Witness ==
  \E p \in Procs :
    /\ loc[p].op = "save_feedback" /\ loc[p].umf = "true" /\ loc[p].clean
    /\ pc[p] = "ufs_read"
    /\ Len(store.messages) = 2
    /\ store.messages[1].role = "assistant" /\ store.messages[2].role = "assistant"
    /\ store.messages[1].feedback # store.messages[2].feedback

\* C6: no stored message with role user carries a feedback field.
C6_UserHasNoFeedback ==
  \A i \in 1..Len(store.messages) :
    store.messages[i].role = "user" => store.messages[i].feedback = "absent"

C6_Witness ==
  /\ CountWhere(store.messages, "user", {"absent"}) > 0
  /\ CountWhere(store.messages, "assistant", {"up", "down"}) > 0
  /\ \E p \in Procs : loc[p].op = "save_feedback" /\ loc[p].umf = "true"

\* C7 as stated: a message whose save_message returned an id is in the stored
\* message list, whatever the other requests did meanwhile.
C7_SavedMessageStays ==
  \A p \in Procs :
    SaveMessageReturned(p) => FindMessage(store.messages, loc[p].ret) # 0

\* C7 amended: as long as no request has written back a document it read before
\* another request's write, every step keeps the stored messages (id, role,
\* text, order) as a prefix of the new list, and a message whose save_message
\* returned an id is in the stored list.
C7_AppendOnlyWithoutOverlap ==
  [][ ~overlap' =>
        /\ IsPrefix(Saved(store.messages), Saved(store'.messages))
        /\ \A p \in Procs :
             (pc'[p] = "done" /\ loc'[p].op = "save_message" /\ loc'[p].ret # 0)
               => FindMessage(store'.messages, loc'[p].ret) # 0 ]_vars

C7_Witness ==
  /\ ~overlap
  /\ Len(store.messages) = 2
  /\ \A p \in Procs : SaveMessageReturned(p)

\* C8: save_message followed by get_session_messages(limit = 1), with no write
\* of another request in between, yields exactly the saved message: its id,
\* role and text.
C8_RoundTrip ==
  \A p \in Procs :
    (SaveMessageReturned(p) /\ loc[p].clean) =>
      LET got == GetSessionMessages(container, store, 1)
      IN  /\ Len(got) = 1
          /\ got[1].id = loc[p].ret
          /\ got[1].role = loc[p].role
          /\ got[1].text = loc[p].text

C8_Witness ==
  \E p \in Procs :
    /\ SaveMessageReturned(p) /\ loc[p].clean
    /\ Len(store.messages) = 2
    /\ store.messages[1].text # store.messages[2].text
    /\ store.messages[1].role # store.messages[2].role

\* C9: in the statistics update_feedback_statistics writes, positive +
\* negative + null + never_rated = total_assistant_messages; null counts the
\* assistant messages whose feedback field is there and is neither up nor
\* down, never those without the field; user messages count nowhere.
C9_CountsAddUp ==
  \A p \in Procs :
    StatsWritten(p, "update_feedback_statistics") =>
      LET never_rated == CountWhere(store.messages, "assistant", {"absent"})
          st == store.stats
      IN  /\ st.positive + st.negative + st.null + never_rated
               = st.total_assistant_messages
          /\ st.total_assistant_messages = NumAssistant(store.messages)
          /\ st.positive = CountWhere(store.messages, "assistant", {"up"})
          /\ st.negative = CountWhere(store.messages, "assistant", {"down"})
          /\ st.null = CountWhere(store.messages, "assistant", {"null", "other"})

C9_Witness ==
  \E p \in Procs :
    /\ StatsWritten(p, "update_feedback_statistics")
    /\ CountWhere(store.messages, "assistant", {"absent"}) > 0
    /\ CountWhere(store.messages, "assistant", {"null"}) > 0
    /\ CountWhere(store.messages, "user", FeedbackValues \ {"absent"}) > 0

\* C10: the label written by update_feedback_statistics is no_feedback exactly
\* for zero assistant messages; otherwise positive exactly when positive >
\* negative and 10 * positive > 3 * total, negative exactly when negative >
\* positive and 10 * negative > 3 * total, and neutral in every other case.
C10_OverallLabel ==
  \A p \in Procs :
    StatsWritten(p, "update_feedback_statistics") =>
      LET pos == CountWhere(store.messages, "assistant", {"up"})
          neg == CountWhere(store.messages, "assistant", {"down"})
          total == NumAssistant(store.messages)
          label == store.stats.overall_feedback
      IN  /\ label = "no_feedback" <=> total = 0
          /\ total > 0 =>
               /\ label = "positive" <=> (pos > neg /\ 10 * pos > 3 * total)
               /\ label = "negative" <=> (neg > pos /\ 10 * neg > 3 * total)
               /\ label = "neutral" <=>
                    /\ ~(pos > neg /\ 10 * pos > 3 * total)
                    /\ ~(neg > pos /\ 10 * neg > 3 * total)

\* a ratio of exactly 0.3: 3 of 10 rated up, fewer rated down
C10_Witness ==
  \E p \in Procs :
    /\ StatsWritten(p, "update_feedback_statistics")
    /\ NumAssistant(store.messages) = 10
    /\ CountWhere(store.messages, "assistant", {"up"}) = 3
    /\ CountWhere(store.messages, "assistant", {"down"}) = 2
    /\ store.stats.overall_feedback = "neutral"

\* -------------------------------------------------------- claims on the chat
\* every call on the store fails, or there is no container
Unavailable == ~container \/ down

\* C11: when the store is unavailable, save_message returns "" and never
\* raises, and generate_chat_response still runs to its end: at every point
\* before the end it has a next step, and at the end it holds an answer and
\* the empty message id.
C11_StoreUnavailable ==
  Unavailable =>
    /\ chat.pc # "raised"
    /\ pc["r1"] = "done" /\ loc["r1"].op = "save_message" => loc["r1"].ret = 0
    /\ chat.pc = "done" => chat.answer.kind # "none" /\ chat.message_id = 0
    /\ chat.pc # "done" => ENABLED NextChat

C11_Witness ==
  /\ down
  /\ chat.pc = "done"
  /\ chat.answer.kind = "generated"
  /\ chat.message_id = 0

\* Arabic-script characters / alphabetic characters <= 0.5, or no letters
NotPredominantlyArabic(m) == m.alpha = 0 \/ 2 * m.arabic <= m.alpha

\* C12: a message that is not predominantly Arabic never reaches the
\* generation or the log; the request ends with the fixed redirect answer,
\* no sources and no unanswered-log entry, whatever retrieval returned.
C12_NonArabicRedirect ==
  chat.pc # "idle" /\ NotPredominantlyArabic(chat.msg) =>
    /\ chat.logged = <<>>
    /\ chat.pc \notin {"wait_user", "generate", "log", "raised"}
    /\ chat.pc \in {"wait_final", "done"} =>
         chat.answer = RedirectAnswer /\ chat.sources = <<>>

C12_Witness ==
  /\ chat.pc = "done"
  /\ chat.msg.arabic = 1 /\ chat.msg.alpha = 2
  /\ chat.msg.keyword
  /\ Len(chat.retrieved) > 0
  /\ chat.answer = RedirectAnswer

\* C13: a message that holds a basic-conversation pattern never produces an
\* unanswered-log entry, for every retrieval outcome and every answer.
C13_GreetingNeverLogged ==
  chat.pc # "idle" /\ chat.msg.basic => chat.logged = <<>>

C13_Witness ==
  /\ chat.pc = "done"
  /\ chat.msg.basic
  /\ chat.is_basic_greeting
  /\ QuestionIsValid(chat.msg)
  /\ Len(chat.retrieved) > 0
  /\ chat.answer.kind = "generated" /\ chat.answer.cant

\* C14: for a message that is not predominantly Arabic, or that holds a
\* basic-conversation pattern, neither the embedding service nor the search
\* index is called (the language and greeting tests replace retrieval).
C14_NoRetrievalForRedirectOrGreeting ==
  chat.pc # "idle" /\ (NotPredominantlyArabic(chat.msg) \/ chat.msg.basic) =>
    chat.embed_calls = 0 /\ chat.search_calls = 0

\* relevance as the scope rules state it: a retrieved source, or a domain term
DomainRelevant == Len(chat.retrieved) > 0 \/ chat.msg.keyword

\* C15: once the answer is final, the unanswered log holds an entry of this
\* request exactly when the message is domain-relevant, holds no
\* basic-conversation pattern, is longer than 3 characters once stripped, the
\* final answer holds a cannot-answer phrase, and the final source list is
\* empty; there is never more than one entry.
C15_LoggedExactlyWhen ==
  /\ Len(chat.logged) <= 1
  /\ chat.pc \notin {"wait_final", "done"} => chat.logged = <<>>
  /\ chat.pc \in {"wait_final", "done"} =>
       (chat.logged # <<>> <=>
          /\ DomainRelevant
          /\ ~IsBasicConversation(chat.msg)
          /\ chat.msg.stripped > MinQuestionLen
          /\ chat.answer.cant
          /\ chat.sources = <<>>)

C15_Witness ==
  /\ chat.pc = "done"
  /\ chat.logged # <<>>
  /\ Len(chat.retrieved) > 0
  /\ chat.answer.long

\* the embedding call or the search-index call of this request raised
RetrievalFailed == chat.embed_error \/ chat.index_error

\* the reason the priority rule gives: a failed retrieval first, then no
\* candidates, then an average score below 0.3
ExpectedReason ==
  IF RetrievalFailed THEN "search_error"
  ELSE IF chat.retrieved = <<>> THEN "no_results"
  ELSE IF RatioGT(LowScore, AvgScore(chat.retrieved)) THEN "low_score"
  ELSE "insufficient_information"

\* C16: every entry of the unanswered log carries the reason the priority
\* rule gives, 'search_error' whenever the embedding call or the
\* search-index call raised.
C16_ReasonPriority ==
  \A i \in 1..Len(chat.logged) : chat.logged[i] = ExpectedReason

C18_GenerationRetries ==
  /\ chat.attempt <= max_retries
  /\ Len(chat.outcomes) = chat.attempt
  /\ \A i \in 1..(Len(chat.outcomes) - 1) : chat.outcomes[i] = "rate_limit"
  /\ chat.pc = "generate" => chat.attempt < max_retries /\ ENABLED NextChat
  /\ chat.pc \in {"log", "wait_final", "done"} /\ chat.outcomes # <<>> =>
       LET last == chat.outcomes[Len(chat.outcomes)]
       IN  /\ last = "ok" => chat.answer \in GeneratedAnswers
           /\ last = "error" => chat.answer = ErrorAnswer
           /\ last = "rate_limit" =>
                Len(chat.outcomes) = max_retries /\ chat.answer = RateLimitAnswer

C18_Witness ==
  /\ chat.pc = "done"
  /\ chat.outcomes = <<"rate_limit", "rate_limit", "rate_limit">>
  /\ chat.answer = RateLimitAnswer

\* --------------------------------------------- requests with many candidates
\* longer candidate lists, for the messages of one length
MaxWide == 5

\* lists of well-scored candidates over all urls, and lists of low-scored ones
WideResults ==
  SeqsUpTo([url : Urls, score : {4}, words : {1}], MaxWide)
    \cup SeqsUpTo([url : {"", "u1"}, score : {2}, words : {1}], MaxWide)

SourceMessages ==
  {m \in Messages : m.stripped = MinQuestionLen + 1
                      /\ <<m.arabic, m.alpha>> \in {<<0, 1>>, <<1, 1>>}}

InitSources == InitChat /\ container /\ ~down

NextSources == ChatStep(SourceMessages, WideResults)

SpecSources == InitSources /\ [][NextSources]_vars

Min(a, b) == IF a <= b THEN a ELSE b

\* the urls of srcs occur, in this order, among the first MaxSources candidates
DrawnInOrder(srcs, results) ==
  \E f \in [1..Len(srcs) -> 1..Min(MaxSources, Len(results))] :
    /\ \A i \in 1..Len(srcs) : results[f[i]].url = srcs[i]
    /\ \A i, j \in 1..Len(srcs) : i < j => f[i] < f[j]

\* C19: the returned source list has at most 4 entries, with non-empty and
\* pairwise distinct urls, taken from the first 4 candidates in ranking
\* order; it is empty for the redirect, greeting and decline answers.
C19_SourceList ==
  chat.pc = "done" =>
    /\ Len(chat.sources) <= 4
    /\ \A i \in 1..Len(chat.sources) : chat.sources[i] # ""
    /\ \A i, j \in 1..Len(chat.sources) : i # j => chat.sources[i] # chat.sources[j]
    /\ DrawnInOrder(chat.sources, chat.retrieved)
    /\ chat.answer.kind \in {"redirect", "decline"} \/ chat.is_basic_greeting =>
         chat.sources = <<>>

C19_Witness ==
  /\ chat.pc = "done"
  /\ Len(chat.retrieved) = 5
  /\ chat.retrieved[1].url = ""
  /\ chat.retrieved[2].url = "u1"
  /\ chat.retrieved[3].url = "u1"
  /\ chat.retrieved[4].url = ""
  /\ chat.retrieved[5].url = "u2"
  /\ chat.sources = <<"u1">>

\* ------------------------------------------------- format_context_for_llm
\* candidates handed to format_context_for_llm, words of a content, budgets
MaxDocs == 3
MaxWords == 2
MaxBudget == 3

\* one more candidate in the list format_context_for_llm will be given
ContextCandidate(w) ==
  /\ chat.pc = "idle"
  /\ Len(chat.search_results) < MaxDocs
  /\ chat' = [chat EXCEPT !.search_results =
                Append(@, [url |-> "u1", score |-> 4, words |-> w])]
  /\ UNCHANGED storageVars

FormatContextCall(max_tokens) ==
  /\ chat.pc = "idle"
  /\ chat' = [chat EXCEPT !.pc = "formatted", !.max_tokens = max_tokens,
                          !.context = FormatContextForLlm(chat.search_results, max_tokens)]
  /\ UNCHANGED storageVars

NextContext ==
  \/ \E w \in 0..MaxWords : ContextCandidate(w)
  \/ \E max_tokens \in 0..MaxBudget : FormatContextCall(max_tokens)

SpecContext == Init /\ [][NextContext]_vars

\* words of the first k candidates
RECURSIVE Cumulative(_, _)
Cumulative(results, k) ==
  IF k = 0 THEN 0 ELSE Cumulative(results, k - 1) + results[k].words

\* C20: the context holds exactly the longest prefix of the candidates whose
\* word counts add up to at most max_tokens: the parts are the candidates
\* 1..n tagged 1..n, their words never exceed max_tokens, candidate n + 1
\* would exceed it, and the first candidate is in whenever it fits alone.
C20_LongestPrefix ==
  chat.pc = "formatted" =>
    LET results == chat.search_results
        parts == chat.context.parts
        n == Len(parts)
    IN  /\ n <= Len(results)
        /\ \A i \in 1..n : parts[i].tag = i /\ parts[i].words = results[i].words
        /\ Cumulative(results, n) <= chat.max_tokens
        /\ n < Len(results) => Cumulative(results, n + 1) > chat.max_tokens
        /\ Len(results) >= 1 /\ results[1].words <= chat.max_tokens => n >= 1

C20_Witness ==
  /\ chat.pc = "formatted"
  /\ chat.max_tokens = 2
  /\ Len(chat.search_results) = 3
  /\ chat.search_results[1].words = 1
  /\ chat.search_results[2].words = 2
  /\ chat.search_results[3].words = 1
  /\ Len(chat.context.parts) = 1

\* C21: a request that has returned with the store available has appended
\* both turns to the session, the user message first and the answer after
\* it, whatever the disposition of the request.
C21_BothTurnsPersisted ==
  chat.pc = "done" /\ container /\ ~down =>
    /\ Len(store.messages) = 2
    /\ store.messages[1].role = "user"
    /\ store.messages[2].role = "assistant"

\* ------------------------------------------------ conversation history
\* The part of generate_chat_response that reads the prior turns of a session:
\* a stored text is <<n, len>>, the n-th text appended to the session and its
\* number of characters.

\* prior messages of the session
MaxHist == 3
\* limit of get_session_messages in generate_chat_response
HistoryLimit == 10
\* max_turns of build_conversation_history
max_turns == 5
\* conversation_history[-4:]
RecentEntries == 4
\* len(current_query.split()) < 5
ShortQueryTokens == 5
\* enhanced[:500] and hist_msg["text"][:500]
TextLimit == 500
\* history_dicts[-6:]
PromptEntries == 6

\* characters of a stored text or of a query, around TextLimit
TextLens == {3, TextLimit, TextLimit + 100}

Queries == [len : TextLens, tokens : {ShortQueryTokens - 1, ShortQueryTokens},
            has_reference : BOOLEAN]

\* reversed(...)
Reversed(s) == [i \in 1..Len(s) |-> s[Len(s) + 1 - i]]

\* a prior turn is found in the session document
HistoryMessage(role, len) ==
  /\ chat.pc = "idle"
  /\ \A p \in Procs : pc[p] = "idle"
  /\ Len(store.messages) < MaxHist
  /\ store' = [exists |-> TRUE,
               messages |-> Append(store.messages,
                              [id |-> Len(store.messages) + 1, role |-> role,
                               text |-> <<Len(store.messages) + 1, len>>,
                               feedback |-> "absent"]),
               message_count |-> Len(store.messages) + 1,
               stats |-> store.stats]
  /\ UNCHANGED <<container, down, nextId, calls, pc, loc, overlap, chat>>

\* build_conversation_history: the lines after the header, as role and text
BuildConversationHistory(cont, doc, turns) ==
  LET messages == GetSessionMessages(cont, doc, turns * 2)
  IN  [i \in 1..Len(messages) |->
         [role |-> Reversed(messages)[i].role, text |-> Reversed(messages)[i].text]]

\* history_dicts of generate_chat_response
HistoryDicts(previous_messages) ==
  [i \in 1..Len(previous_messages) |->
     [role |-> Reversed(previous_messages)[i].role,
      text |-> Reversed(previous_messages)[i].text]]

Max(a, b) == IF a >= b THEN a ELSE b

\* texts of the user entries of a history, in its order
RECURSIVE UserTexts(_)
UserTexts(history) ==
  IF history = <<>> THEN <<>>
  ELSE IF Head(history).role = "user"
    THEN <<Head(history).text>> \o UserTexts(Tail(history))
  ELSE UserTexts(Tail(history))

\* (prev + " " + current_query)[:500]
Joined(prev, query) ==
  [prefix |-> prev[1], prefix_kept |-> Min(prev[2], TextLimit),
   query_kept |-> Max(0, Min(query.len, TextLimit - prev[2] - 1))]

Unchanged(query) == [prefix |-> 0, prefix_kept |-> 0, query_kept |-> query.len]

\* enhance_query_with_context
EnhanceQueryWithContext(query, conversation_history) ==
  IF Len(conversation_history) < 2 THEN Unchanged(query)
  ELSE IF query.has_reference \/ query.tokens < ShortQueryTokens
    THEN LET recent_context ==
               UserTexts(LastMessages(conversation_history, RecentEntries))
         IN  IF recent_context # <<>>
               THEN Joined(recent_context[Len(recent_context)], query)
               ELSE Unchanged(query)
  ELSE Unchanged(query)

\* the entries of messages_for_llm after the system prompt: role, text and
\* the characters of the text that are passed on
PromptTurns(is_new, history_dicts, query) ==
  LET current == <<[role |-> "user", text |-> <<0, query.len>>, kept |-> query.len]>>
      recent == LastMessages(history_dicts, PromptEntries)
  IN  IF is_new THEN current
      ELSE [i \in 1..Len(recent) |->
              [role |-> recent[i].role, text |-> recent[i].text,
               kept |-> Min(recent[i].text[2], TextLimit)]] \o current

\* generate_chat_response from the session id to the enhanced query, and the
\* prompt it builds later from the same history
ChatHistoryCall(is_new, query) ==
  /\ chat.pc = "idle"
  /\ is_new => ~store.exists
  /\ LET previous_messages ==
           IF is_new THEN <<>>
           ELSE GetSessionMessages(container /\ ~down, store, HistoryLimit)
         history_text ==
           IF is_new THEN <<>>
           ELSE BuildConversationHistory(container /\ ~down, store, max_turns)
         history_dicts == HistoryDicts(previous_messages)
     IN  chat' = [chat EXCEPT
                    !.pc = "prompted", !.is_new_session = is_new, !.query = query,
                    !.conversation_history_text = history_text,
                    !.history_dicts = history_dicts,
                    !.enhanced_query =
                       IF is_new \/ Len(history_dicts) = 0 THEN Unchanged(query)
                       ELSE EnhanceQueryWithContext(query, history_dicts),
                    !.messages_for_llm = PromptTurns(is_new, history_dicts, query)]
  /\ UNCHANGED storageVars

NextHistory ==
  \/ \E role \in Roles, len \in TextLens : HistoryMessage(role, len)
  \/ \E is_new \in BOOLEAN, query \in Queries : ChatHistoryCall(is_new, query)

SpecHistory == Init /\ [][NextHistory]_vars

\* the entries of a history are in the order they were appended to the session
OldestFirst(history) ==
  \A i, j \in 1..Len(history) : i < j => history[i].text[1] < history[j].text[1]

\* a history holds the most recent messages of the session, limit at most
MostRecent(history, limit) ==
  /\ Len(history) = Min(limit, Len(store.messages))
  /\ \A i \in 1..Len(history) :
       history[i].text[1] > Len(store.messages) - Min(limit, Len(store.messages))

\* C22: the history of an existing session, as build_conversation_history
\* returns it and as generate_chat_response passes it on, is ordered oldest
\* first and holds the max_turns * 2 most recent messages at most.
C22_HistoryOldestFirst ==
  chat.pc = "prompted" /\ ~chat.is_new_session /\ container =>
    /\ OldestFirst(chat.conversation_history_text)
    /\ OldestFirst(chat.history_dicts)
    /\ MostRecent(chat.conversation_history_text, max_turns * 2)
    /\ MostRecent(chat.history_dicts, max_turns * 2)

\* the user message appended last to the session, 0 when there is none
LastUser ==
  LET users == {i \in 1..Len(store.messages) : store.messages[i].role = "user"}
  IN  IF users = {} THEN 0 ELSE CHOOSE i \in users : \A j \in users : j <= i

\* C23: for a follow-up query (a reference word, or fewer than 5 tokens) and
\* a history of at least 2 entries, the text prepended to the query is the
\* user message appended last to the session.
C23_PrependsLastUserMessage ==
  (/\ chat.pc = "prompted"
   /\ chat.query.has_reference \/ chat.query.tokens < 5
   /\ Len(chat.history_dicts) >= 2
   /\ LastUser # 0)
    => chat.enhanced_query.prefix = LastUser

\* C24: the enhanced query holds every character of the current query, and
\* with fewer than 2 history entries it is the query unchanged.
C24_QueryNeverCut ==
  chat.pc = "prompted" =>
    /\ chat.enhanced_query.query_kept = chat.query.len
    /\ Len(chat.history_dicts) < 2 => chat.enhanced_query = Unchanged(chat.query)

\* the last 6 messages of the session in the order they were appended, each
\* cut to 500 characters, then the current message
ExpectedTurns ==
  LET recent == LastMessages(store.messages, 6)
  IN  [i \in 1..Len(recent) |->
         [role |-> recent[i].role, text |-> recent[i].text,
          kept |-> Min(recent[i].text[2], 500)]]
      \o <<[role |-> "user", text |-> <<0, chat.query.len>>, kept |-> chat.query.len]>>

\* C25: for an existing session the turns of the generation request are the
\* last 6 messages of the session in chronological order, each cut to 500
\* characters, and the current message comes last.
C25_PromptTurns ==
  chat.pc = "prompted" /\ ~chat.is_new_session /\ container =>
    chat.messages_for_llm = ExpectedTurns

\* ------------------------------------------------- claims on concurrent updates
\* request p's update_message_feedback returned True, request p is over
FeedbackReturned(p) ==
  pc[p] = "done" /\ loc[p].op = "save_feedback" /\ loc[p].umf = "true"

\* the rating request p set is the stored rating of its message
RatingStored(p) ==
  LET i == FindMessage(store.messages, loc[p].mid)
  IN  i # 0 /\ store.messages[i].feedback = loc[p].rating

\* C26 as stated: when a feedback update and another feedback update on another
\* message, or a feedback update and a save_message, have both reported
\* success, the stored document holds both effects.
C26_BothEffectsStored ==
  \A p, q \in Procs :
    (/\ p # q
     /\ FeedbackReturned(p)
     /\ \/ FeedbackReturned(q) /\ loc[q].mid # loc[p].mid
        \/ SaveMessageReturned(q))
      => /\ RatingStored(p)
         /\ FeedbackReturned(q) => RatingStored(q)
         /\ SaveMessageReturned(q) => FindMessage(store.messages, loc[q].ret) # 0

\* C26 amended: as long as no request has written back a document it read
\* before another request's write, every step keeps every stored message and
\* every stored rating except the rating a successful feedback update sets in
\* that step, and that rating is stored.
C26_EffectsKeptWithoutOverlap ==
  [][ ~overlap' =>
        /\ \A j \in 1..Len(store.messages) :
             /\ j <= Len(store'.messages)
             /\ store'.messages[j].id = store.messages[j].id
             /\ \/ store'.messages[j].feedback = store.messages[j].feedback
                \/ \E p \in Procs :
                     /\ pc[p] = "umf_upsert" /\ pc'[p] = "ufs_read"
                     /\ loc[p].mid = store.messages[j].id
        /\ \A p \in Procs :
             (pc[p] = "umf_upsert" /\ pc'[p] = "ufs_read") =>
               LET i == FindMessage(store'.messages, loc[p].mid)
               IN  i # 0 /\ store'.messages[i].feedback = loc[p].rating ]_vars

C26_Witness ==
  /\ ~overlap
  /\ \E p, q \in Procs :
       /\ p # q
       /\ FeedbackReturned(p) /\ RatingStored(p)
       /\ SaveMessageReturned(q) /\ FindMessage(store.messages, loc[q].ret) # 0
       /\ loc[q].ret # loc[p].mid

\* ------------------------------------------------- claims on scope and logging
\* C27: the classifier reports a message as domain-relevant whenever retrieval
\* returned a candidate, so 'not relevant and at least one candidate' never
\* holds and the fixed decline message is never the answer.
C27_NeverDeclines ==
  /\ ~(chat.has_results /\ ~chat.is_related)
  /\ chat.answer # DeclineAnswer

C27_Witness ==
  /\ chat.pc = "done"
  /\ IsArabicText(chat.msg) /\ ~chat.msg.basic /\ ~chat.msg.keyword
  /\ chat.has_results /\ chat.is_related
  /\ chat.answer \in GeneratedAnswers

\* C28: in the stored session document message_count equals the length of the
\* messages list, after any sequence and interleaving of save_message,
\* update_message_feedback and statistics updates.
C28_MessageCount ==
  store.exists => store.message_count = Len(store.messages)

C28_Witness ==
  /\ overlap
  /\ store.message_count = 2
  /\ store.stats.present
  /\ \E i \in 1..Len(store.messages) : store.messages[i].feedback \in Ratings

\* C29: when one of the two fixed fallback answers is returned (the generic
\* error text, or the rate-limit text after the third rate-limited attempt),
\* no unanswered-log entry is emitted, whatever retrieval gave.
C29_FallbackNeverLogged ==
  chat.answer.kind \in {"rate_limit", "error"} => chat.logged = <<>>

C29_Witness ==
  /\ chat.pc = "done"
  /\ chat.answer = RateLimitAnswer
  /\ Len(chat.outcomes) = max_retries
  /\ chat.is_related /\ ~chat.is_basic_greeting /\ QuestionIsValid(chat.msg)
  /\ chat.search_results = <<>>

\* no candidate among the first 4 retrieved has a url
NoUrlInFirstFour ==
  \A i \in 1..Len(chat.retrieved) : i <= 4 => chat.retrieved[i].url = ""

\* C30: no unanswered-log entry is emitted when one of the first 4 retrieved
\* candidates has a non-empty url; so 'low_score' and
\* 'insufficient_information' occur only with candidates that have no url
\* among the first 4, and 'search_error' only with zero candidates.
C30_LoggedOnlyWithoutSources ==
  \A i \in 1..Len(chat.logged) :
    /\ NoUrlInFirstFour
    /\ chat.logged[i] \in {"low_score", "insufficient_information"} =>
         chat.retrieved # <<>>
    /\ chat.logged[i] = "search_error" => chat.retrieved = <<>>

C30_Witness ==
  /\ chat.pc = "done"
  /\ chat.logged = <<"low_score">>
  /\ Len(chat.retrieved) = 5
  /\ chat.retrieved[5].url # ""

====
